---- MODULE Spec2Model ----
(***************************************************************************)
(* Model of src-tauri/src/lib.rs: the per-language workspace commands      *)
(* (bootstrap_language, delete_language, get_vocabulary, get_grammar,      *)
(* get_chat_history), the send_message orchestration of the detached       *)
(* tracker task and the awaited responder process, the identifier          *)
(* validation and directory mapping, the transcript reader and the SM-2    *)
(* rule written in TRACKER_PROMPT.                                         *)
(*                                                                         *)
(* Text is a sequence of one-character strings.  Results are records       *)
(* [ok, fmt, args, val]: fmt is the format string of the source            *)
(* (format!("Language '{}' already exists", language)), args its           *)
(* arguments, val the payload of an Ok of a read command.                  *)
(***************************************************************************)
EXTENDS Integers, Sequences, FiniteSets, TLC

(***************************************************************************)
(* Bounds                                                                  *)
(***************************************************************************)
\* send_message calls that get past the existence guard
MaxCalls == 2
\* length of the identifiers the workspace resolver is run on
MaxIdLen == 2
\* bootstrap attempts that get past the existence guard (the clock that
\* dates the files advances once per attempt)
MaxClock == 2
\* lines of a log file built from the basic kinds of line
MaxLines == 4
\* items of a content list in a log record
MaxItems == 2
\* correct uses applied to one tracked item
MaxUses == 3
\* repetitions and interval of the tracked item the policy starts from
MaxRepetitions == 3
MaxInterval == 6

(***************************************************************************)
(* Text helpers                                                            *)
(***************************************************************************)
\* all sequences over S of length 0..n
RECURSIVE SeqsUpTo(_, _)
SeqsUpTo(S, n) ==
    IF n = 0 THEN {<<>>}
    ELSE LET shorter == SeqsUpTo(S, n - 1)
         IN  shorter \cup {Append(s, c) : s \in {t \in shorter : Len(t) = n - 1}, c \in S}

\* characters: "K" and "I_DOT" (U+0130) are uppercase letters, "k", "i" and
\* "o" lowercase letters, "7" a digit, "COMB_DOT" is U+0307 (a combining
\* mark, general category Mn, not alphanumeric), the rest punctuation.
Letters == {"k", "K", "o", "i", "I_DOT"}
Digits == {"7"}
Whitespace == {" ", "\n"}

\* char::is_alphanumeric
IsAlphanumeric(c) == c \in Letters \cup Digits

\* char::to_lowercase: yields one or more characters; U+0130 lowercases to
\* "i" followed by U+0307
CharToLowercase(c) ==
    CASE c = "K" -> <<"k">>
      [] c = "I_DOT" -> <<"i", "COMB_DOT">>
      [] OTHER -> <<c>>

\* str::to_lowercase
RECURSIVE ToLowercase(_)
ToLowercase(s) ==
    IF s = <<>> THEN <<>> ELSE CharToLowercase(Head(s)) \o ToLowercase(Tail(s))

\* str::contains(char)
ContainsChar(s, c) == \E i \in 1..Len(s) : s[i] = c

\* str::contains("..")
ContainsDotDot(s) == \E i \in 1..(Len(s) - 1) : s[i] = "." /\ s[i + 1] = "."

\* str::trim: strips leading and trailing whitespace only
RECURSIVE TrimStart(_)
TrimStart(s) ==
    IF s # <<>> /\ Head(s) \in Whitespace THEN TrimStart(Tail(s)) ELSE s

RECURSIVE TrimEnd(_)
TrimEnd(s) ==
    IF s # <<>> /\ s[Len(s)] \in Whitespace THEN TrimEnd(SubSeq(s, 1, Len(s) - 1)) ELSE s

Trim(s) == TrimEnd(TrimStart(s))

(***************************************************************************)
(* Results                                                                 *)
(***************************************************************************)
NoVal == <<>>
Ok(fmt, args) == [ok |-> TRUE, fmt |-> fmt, args |-> args, val |-> NoVal]
OkVal(v) == [ok |-> TRUE, fmt |-> "{}", args |-> <<>>, val |-> v]
Err(fmt, args) == [ok |-> FALSE, fmt |-> fmt, args |-> args, val |-> NoVal]

(***************************************************************************)
(* Path helpers                                                            *)
(***************************************************************************)
ValidateSkipCharCheck(language) ==
    IF language = <<>> THEN Err("Language name cannot be empty", <<>>)
    ELSE IF ContainsDotDot(language) \/ ContainsChar(language, "/")
            \/ ContainsChar(language, "\\")
    THEN Err("Language name contains invalid characters", <<>>)
    ELSE Ok("", <<>>)

validate_language_name(language) ==
    IF language = <<>> THEN Err("Language name cannot be empty", <<>>)
    ELSE IF ContainsDotDot(language) \/ ContainsChar(language, "/")
            \/ ContainsChar(language, "\\")
    THEN Err("Language name contains invalid characters", <<>>)
    ELSE IF ~ \A i \in 1..Len(language) :
                IsAlphanumeric(language[i]) \/ language[i] = " " \/ language[i] = "-"
    THEN Err("Language name can only contain letters, numbers, spaces, and hyphens", <<>>)
    ELSE Ok("", <<>>)

\* get_language_dir: the validation error, or Ok with val the directory name
\* under the data directory
get_language_dir(language) ==
    LET v == validate_language_name(language)
    IN  IF ~v.ok THEN v ELSE OkVal(ToLowercase(language))

(***************************************************************************)
(* Inputs of the commands                                                  *)
(***************************************************************************)
\* valid identifiers: two that differ only in case
ValidArgs == { <<"k">>, <<"K">> }

\* one identifier for each way validate_language_name rejects
InvalidArgs ==
    { <<>>, <<".", ".">>, <<"k", "/">>, <<"\\", "k">>, <<"k", "_">> }

LanguageArgs == ValidArgs \cup InvalidArgs

Messages == { <<"h", "o", "l", "a">> }

\* what the external process writes to its standard output and standard error
ProcessStdout == <<" ", "o", " ", "k", "\n">>
ProcessStderr == <<"n", "o", "\n">>

Calls == 1..MaxCalls

(***************************************************************************)
(* State                                                                   *)
(***************************************************************************)
VARIABLES
    dirs,        \* the data directory: directory name -> [files, subdirs]
    clock,       \* the date and modification time the next write gets
    ret,         \* the last command that returned at once: [op, language, result]
    calls,       \* send_message calls past the guard: call -> its position and data
    trackers,    \* the detached tracker task of each call
    project,     \* the external tool's project-log directory of the workspace
    identifier,  \* workspace resolver: the identifier being resolved
    resolution,  \* workspace resolver: what get_language_dir made of it
    log,         \* transcript reader: the lines of the log file
    lineNo,      \* transcript reader: lines read so far
    messages,    \* transcript reader: the turns collected so far
    item,        \* progress update policy: the tracked vocabulary item
    uses,        \* progress update policy: correct uses applied so far
    vocabulary,  \* progress update policy: word -> its entry in vocabulary.json
    updates      \* progress update policy: word -> updates of its entry so far

vars == <<dirs, clock, ret, calls, trackers, project,
          identifier, resolution, log, lineNo, messages, item, uses,
          vocabulary, updates>>

resolveVars == <<identifier, resolution>>
parseVars == <<log, lineNo, messages>>
sm2Vars == <<item, uses, vocabulary, updates>>

(***************************************************************************)
(* Embedded templates and language-specific configuration                  *)
(***************************************************************************)
DEFAULT_LANGUAGE_INFO ==
    [native_script |-> "Native Script", romanization |-> "none", notes |-> "default"]

get_language_info(language) ==
    LET l == ToLowercase(language)
    IN  CASE l \in {<<"c","h","i","n","e","s","e">>, <<"m","a","n","d","a","r","i","n">>} ->
               [native_script |-> "hanzi", romanization |-> "pinyin", notes |-> "chinese"]
          [] l = <<"k","o","r","e","a","n">> ->
               [native_script |-> "hangul", romanization |-> "none", notes |-> "korean"]
          [] l = <<"j","a","p","a","n","e","s","e">> ->
               [native_script |-> "nihongo", romanization |-> "romaji", notes |-> "japanese"]
          [] l = <<"s","p","a","n","i","s","h">> ->
               [native_script |-> "Espanol", romanization |-> "none", notes |-> "spanish"]
          [] l = <<"f","r","e","n","c","h">> ->
               [native_script |-> "Francais", romanization |-> "none", notes |-> "french"]
          [] l = <<"g","e","r","m","a","n">> ->
               [native_script |-> "Deutsch", romanization |-> "none", notes |-> "german"]
          [] OTHER -> DEFAULT_LANGUAGE_INFO

\* the templates with {{LANGUAGE_NAME}} and the other placeholders replaced
TUTOR_TEMPLATE(language, info) ==
    [language |-> language, native |-> info.native_script,
     romanization |-> info.romanization, notes |-> info.notes]

VocabularyTemplateDirName(language) ==
    [language |-> ToLowercase(language), words |-> <<>>]

VOCABULARY_TEMPLATE(language) == [language |-> language, words |-> <<>>]

GRAMMAR_TEMPLATE(language) == [language |-> language, rules |-> <<>>]

USER_OVERRIDES_TEMPLATE(language) ==
    [language |-> language, mode |-> "learning",
     preferences |-> [new_vocab_per_exchange |-> 2, show_romanization |-> TRUE],
     notes |-> ""]

LanguageConfig(language, info, today) ==
    [language |-> language, native_script |-> info.native_script,
     romanization |-> info.romanization, started |-> today]

(***************************************************************************)
(* File system                                                             *)
(***************************************************************************)
\* Path::exists
exists(dir) == dir \in DOMAIN dirs

EmptyDir == [files |-> <<>>, subdirs |-> {}]

\* the files generate_language_files writes, in the order it writes them
ArtifactOrder ==
    <<"CLAUDE.md", "vocabulary.json", "grammar.json", "user-overrides.json", "config.json">>

Artifacts == {ArtifactOrder[i] : i \in 1..Len(ArtifactOrder)}

\* what generate_language_files puts in each file
ArtifactContent(filename, language, today) ==
    LET info == get_language_info(language)
    IN  CASE filename = "CLAUDE.md" -> TUTOR_TEMPLATE(language, info)
          [] filename = "vocabulary.json" -> VOCABULARY_TEMPLATE(language)
          [] filename = "grammar.json" -> GRAMMAR_TEMPLATE(language)
          [] filename = "user-overrides.json" -> USER_OVERRIDES_TEMPLATE(language)
          [] filename = "config.json" -> LanguageConfig(language, info, today)

\* fs::write of the first n files of ArtifactOrder (n < 5: the next write failed)
generate_language_files(dir, language, n) ==
    [dir EXCEPT !.files =
        [f \in (DOMAIN dir.files) \cup {ArtifactOrder[i] : i \in 1..n} |->
            IF \E i \in 1..n : ArtifactOrder[i] = f
            THEN [content |-> ArtifactContent(f, language, clock), mtime |-> clock]
            ELSE dir.files[f]]]

\* fs::create_dir_all(dir): the directory and its missing parents
CreateDirAll(fs, dir) ==
    IF dir \in DOMAIN fs THEN fs
    ELSE [d \in (DOMAIN fs) \cup {dir} |-> IF d = dir THEN EmptyDir ELSE fs[d]]

\* fs::remove_dir_all(dir)
RemoveDirAll(fs, dir) == [d \in (DOMAIN fs) \ {dir} |-> fs[d]]

\* a command returns at once
Returned(op, language, result) == [op |-> op, language |-> language, result |-> result]

(***************************************************************************)
(* JSON values (serde_json::Value) and Option                              *)
(***************************************************************************)
None == [some |-> FALSE]
Some(x) == [some |-> TRUE, v |-> x]

JNull == [kind |-> "null", s |-> "", items |-> <<>>, fields |-> <<>>]
JNumber == [kind |-> "number", s |-> "", items |-> <<>>, fields |-> <<>>]
JString(str) == [kind |-> "string", s |-> str, items |-> <<>>, fields |-> <<>>]
JArray(items) == [kind |-> "array", s |-> "", items |-> items, fields |-> <<>>]
JObject(fields) == [kind |-> "object", s |-> "", items |-> <<>>, fields |-> fields]

\* Value::get(key): None unless the value is an object that has the key
Get(json, key) ==
    IF json.kind = "object" /\ key \in DOMAIN json.fields
    THEN Some(json.fields[key]) ELSE None

\* Value::as_str
AsStr(json) == IF json.kind = "string" THEN Some(json.s) ELSE None

\* Value::as_array
AsArray(json) == IF json.kind = "array" THEN Some(json.items) ELSE None

(***************************************************************************)
(* JSON message extraction helpers                                         *)
(***************************************************************************)
GetMessageContentIgnoreRole(json, role) ==
    LET type == Get(json, "type")
        msg == Get(json, "message")
    IN  IF ~type.some \/ ~AsStr(type.v).some THEN None
        ELSE IF AsStr(type.v).v # role THEN None
        ELSE IF ~msg.some THEN None
        ELSE Get(msg.v, "content")

get_message_content(json, role) ==
    LET type == Get(json, "type")
        msg == Get(json, "message")
    IN  IF ~type.some \/ ~AsStr(type.v).some THEN None
        ELSE IF AsStr(type.v).v # role THEN None
        ELSE IF ~msg.some THEN None
        ELSE LET r == Get(msg.v, "role")
             IN  IF ~r.some \/ ~AsStr(r.v).some THEN None
                 ELSE IF AsStr(r.v).v # role THEN None
                 ELSE Get(msg.v, "content")

extract_user_message(json) ==
    LET content == get_message_content(json, "user")
    IN  IF ~content.some THEN None
        ELSE IF AsStr(content.v).some THEN Some(AsStr(content.v).v)
        ELSE None

\* the for loop of extract_assistant_message over the items from index i on:
\* a ? on a missing "type", a non-string "type" or a missing "text" leaves
\* the whole function with None
RECURSIVE AssistantTextFrom(_, _)
AssistantTextFrom(content, i) ==
    IF i > Len(content) THEN None
    ELSE LET type == Get(content[i], "type")
         IN  IF ~type.some \/ ~AsStr(type.v).some THEN None
             ELSE IF AsStr(type.v).v = "text"
             THEN LET text == Get(content[i], "text")
                  IN  IF ~text.some THEN None
                      ELSE IF AsStr(text.v).some THEN Some(AsStr(text.v).v)
                      ELSE AssistantTextFrom(content, i + 1)
             ELSE AssistantTextFrom(content, i + 1)

extract_assistant_message(json) ==
    LET content == get_message_content(json, "assistant")
    IN  IF ~content.some \/ ~AsArray(content.v).some THEN None
        ELSE AssistantTextFrom(AsArray(content.v).v, 1)

ChatMessage(role, content) == [role |-> role, content |-> content]

\* a line of the log file: text that parses as JSON, or text that does not
JsonLine(json) == [parses |-> TRUE, json |-> json]
BadLine == [parses |-> FALSE, json |-> JNull]

\* the body of the for loop of parse_chat_messages_from_jsonl
ParseLineStopAtBad(msgs, line) ==
    IF ~line.parses THEN <<>>
    ELSE LET u == extract_user_message(line.json)
             a == extract_assistant_message(line.json)
             withUser == IF u.some THEN Append(msgs, ChatMessage("user", u.v)) ELSE msgs
         IN  IF a.some THEN Append(withUser, ChatMessage("assistant", a.v)) ELSE withUser

ParseLinePushesTwice(msgs, line) ==
    IF ~line.parses THEN msgs
    ELSE LET u == extract_user_message(line.json)
             a == extract_assistant_message(line.json)
             withUser == IF u.some THEN Append(msgs, ChatMessage("user", u.v)) ELSE msgs
         IN  IF a.some THEN Append(withUser, ChatMessage("assistant", a.v))
             ELSE IF u.some THEN Append(withUser, ChatMessage("assistant", u.v))
             ELSE withUser

ParseLine(msgs, line) ==
    IF ~line.parses THEN msgs
    ELSE LET u == extract_user_message(line.json)
             a == extract_assistant_message(line.json)
             withUser == IF u.some THEN Append(msgs, ChatMessage("user", u.v)) ELSE msgs
         IN  IF a.some THEN Append(withUser, ChatMessage("assistant", a.v)) ELSE withUser

RECURSIVE ParseLinesFrom(_, _, _)
ParseLinesFrom(lines, i, msgs) ==
    IF i > Len(lines) THEN msgs
    ELSE ParseLinesFrom(lines, i + 1, ParseLine(msgs, lines[i]))

parse_chat_messages_from_jsonl(lines) == ParseLinesFrom(lines, 1, <<>>)

(***************************************************************************)
(* Workspace commands                                                      *)
(***************************************************************************)
\* the directories the valid identifiers resolve to
DirNames == {get_language_dir(l).val : l \in ValidArgs}

\* format!("Failed to write {}: {}", filename, e)
WriteError(filename) ==
    CASE filename = "CLAUDE.md" -> Err("Failed to write CLAUDE.md: {}", <<>>)
      [] filename = "vocabulary.json" -> Err("Failed to write vocabulary.json: {}", <<>>)
      [] filename = "grammar.json" -> Err("Failed to write grammar.json: {}", <<>>)
      [] filename = "user-overrides.json" -> Err("Failed to write user-overrides.json: {}", <<>>)
      [] filename = "config.json" -> Err("Failed to write config.json: {}", <<>>)

\* bootstrap_language.  mkdirs and writes are the answers the file system
\* may give past the existence guard: whether create_dir_all succeeds, and
\* how many files are written before a write fails (5: none fails).
BootstrapOverwrite(language, mkdirs, writes) ==
    LET r == get_language_dir(language)
    IN  IF ~r.ok
        THEN /\ ret' = Returned("bootstrap_language", language, r)
             /\ UNCHANGED <<dirs, clock>>
        ELSE /\ clock < MaxClock
             /\ clock' = clock + 1
             /\ LET made == CreateDirAll(dirs, r.val)
                IN  dirs' = [made EXCEPT ![r.val] =
                                generate_language_files(made[r.val], language, 5)]
             /\ ret' = Returned("bootstrap_language", language,
                                Ok("Successfully bootstrapped {}", <<language>>))

bootstrap_language(language, mkdirs, writes) ==
    LET r == get_language_dir(language)
    IN  IF ~r.ok
        THEN /\ ret' = Returned("bootstrap_language", language, r)
             /\ UNCHANGED <<dirs, clock>>
        ELSE IF exists(r.val)
        THEN /\ ret' = Returned("bootstrap_language", language,
                                Err("Language '{}' already exists", <<language>>))
             /\ UNCHANGED <<dirs, clock>>
        ELSE /\ clock < MaxClock
             /\ clock' = clock + 1
             /\ \/ /\ FALSE \in mkdirs
                   /\ dirs' = dirs
                   /\ ret' = Returned("bootstrap_language", language,
                               Err("Failed to create language directory: {}", <<>>))
                \/ /\ TRUE \in mkdirs
                   /\ \E written \in writes :
                        /\ LET made == CreateDirAll(dirs, r.val)
                           IN  dirs' = [made EXCEPT ![r.val] =
                                   generate_language_files(made[r.val], language, written)]
                        /\ ret' = Returned("bootstrap_language", language,
                                    IF written = 5
                                    THEN Ok("Successfully bootstrapped {}", <<language>>)
                                    ELSE WriteError(ArtifactOrder[written + 1]))

\* delete_language; removals: whether remove_dir_all may succeed, may fail
delete_language(language, removals) ==
    LET r == get_language_dir(language)
    IN  IF ~r.ok
        THEN /\ ret' = Returned("delete_language", language, r)
             /\ dirs' = dirs
        ELSE IF ~exists(r.val)
        THEN /\ ret' = Returned("delete_language", language,
                                Err("Language '{}' does not exist", <<language>>))
             /\ dirs' = dirs
        ELSE \/ /\ FALSE \in removals
                /\ ret' = Returned("delete_language", language,
                                   Err("Failed to delete language: {}", <<>>))
                /\ dirs' = dirs
             \/ /\ TRUE \in removals
                /\ ret' = Returned("delete_language", language,
                                   Ok("Deleted {}", <<language>>))
                /\ dirs' = RemoveDirAll(dirs, r.val)

\* fs::read_to_string of a file of the language directory
ReadLanguageFile(op, language, filename, what) ==
    LET r == get_language_dir(language)
    IN  ret' = Returned(op, language,
                 IF ~r.ok THEN r
                 ELSE IF exists(r.val) /\ filename \in DOMAIN dirs[r.val].files
                 THEN OkVal(dirs[r.val].files[filename].content)
                 ELSE Err(what, <<>>))

get_vocabulary(language) ==
    ReadLanguageFile("get_vocabulary", language, "vocabulary.json",
                     "Failed to read vocabulary: {}")

get_grammar(language) ==
    ReadLanguageFile("get_grammar", language, "grammar.json",
                     "Failed to read grammar: {}")

(***************************************************************************)
(* Agent invocation layer                                                  *)
(***************************************************************************)
TRACKER_TIMEOUT_SECS == 60

TrackerDirName == <<".", "t", "r", "a", "c", "k", "e", "r">>

\* a Command: program, flags, the -p prompt and the working directory (a
\* path below the data directory)
NoRequest == [program |-> "", flags |-> <<>>, prompt |-> <<>>, cwd |-> <<>>]

\* TRACKER_PROMPT with {{MESSAGE}} replaced
TRACKER_PROMPT(message) == <<"TRACKER_PROMPT">> \o message

\* f64::round of n / 10 for n >= 0: half away from zero
RoundTenths(n) == (n + 5) \div 10

\* the SM-2 rule of TRACKER_PROMPT for a word used correctly; ease is kept
\* in tenths (25 is 2.5)
SM2KeepInterval(it) ==
    [it EXCEPT !.repetitions = it.repetitions + 1]

SM2CorrectUse(it) ==
    LET repetitions == it.repetitions + 1
    IN  [repetitions |-> repetitions,
         interval |-> IF repetitions = 1 THEN 1
                      ELSE IF repetitions = 2 THEN 6
                      ELSE IF repetitions >= 3 THEN RoundTenths(it.interval * it.ease)
                      ELSE it.interval,
         ease |-> it.ease]

\* the entry TRACKER_PROMPT has the tracker add for a new word
NewItemZeroRepetitions == [repetitions |-> 0, interval |-> 1, ease |-> 25]

NewVocabularyItem == [repetitions |-> 1, interval |-> 1, ease |-> 25]

TrackerCommandInRoot(lang_dir, message) ==
    [program |-> "claude",
     flags |-> <<"--dangerously-skip-permissions", "-p">>,
     prompt |-> TRACKER_PROMPT(message),
     cwd |-> <<lang_dir>>]

TrackerCommand(lang_dir, message) ==
    [program |-> "claude",
     flags |-> <<"--dangerously-skip-permissions", "-p">>,
     prompt |-> TRACKER_PROMPT(message),
     cwd |-> <<lang_dir, TrackerDirName>>]

ResponderCommand(lang_dir, message) ==
    [program |-> "claude",
     flags |-> <<"--dangerously-skip-permissions", "--continue", "-p">>,
     prompt |-> message,
     cwd |-> <<lang_dir>>]

\* what cmd.output() inside spawn_blocking, awaited, comes to
NoOutput == [status |-> "none", stdout |-> <<>>, stderr |-> <<>>]
JoinError == [status |-> "join_error", stdout |-> <<>>, stderr |-> <<>>]
SpawnError == [status |-> "spawn_error", stdout |-> <<>>, stderr |-> <<>>]
Exited(code, stdout, stderr) ==
    [status |-> IF code = 0 THEN "exit_zero" ELSE "exit_nonzero",
     stdout |-> stdout, stderr |-> stderr]

ProcessOutcomes ==
    {JoinError, SpawnError, Exited(0, ProcessStdout, <<>>),
     Exited(1, ProcessStdout, ProcessStderr)}

Pending == Err("pending", <<>>)

IdleCall ==
    [pc |-> "idle", language |-> <<>>, lang_dir |-> <<>>, message |-> <<>>,
     launched |-> <<>>, responder |-> NoRequest, output |-> NoOutput,
     result |-> Pending]

IdleTracker == [state |-> "none", lang_dir |-> <<>>, message |-> <<>>, command |-> NoRequest]

TrackerTerminal == {"mkdir_failed", "timed_out", "join_error", "command_error", "completed"}

\* spawn_tracker_agent: tokio::spawn queues the task and returns
spawn_tracker_agent(c, lang_dir, message) ==
    trackers' = [trackers EXCEPT ![c] =
        [state |-> "spawned", lang_dir |-> lang_dir, message |-> message,
         command |-> NoRequest]]

\* the task starts: create_dir_all of the .tracker directory, then
\* spawn_blocking of the command
TrackerStart(c) ==
    /\ trackers[c].state = "spawned"
    /\ \/ /\ trackers' = [trackers EXCEPT ![c].state = "mkdir_failed"]
          /\ dirs' = dirs
       \/ /\ dirs' = [CreateDirAll(dirs, trackers[c].lang_dir)
                         EXCEPT ![trackers[c].lang_dir].subdirs = @ \cup {TrackerDirName}]
          /\ trackers' = [trackers EXCEPT
                ![c].state = "running",
                ![c].command = TrackerCommand(trackers[c].lang_dir, trackers[c].message)]

\* the match on tokio::time::timeout(timeout, task).await: every arm only logs
TrackerEndRetries(c, outcome) ==
    /\ trackers[c].state = "running"
    /\ trackers' = [trackers EXCEPT ![c].state =
            CASE outcome = "elapsed" -> "spawned"
              [] outcome = JoinError.status -> "join_error"
              [] outcome = SpawnError.status -> "command_error"
              [] OTHER -> "completed"]

TrackerEnd(c, outcome) ==
    /\ trackers[c].state = "running"
    /\ trackers' = [trackers EXCEPT ![c].state =
            CASE outcome = "elapsed" -> "timed_out"
              [] outcome = JoinError.status -> "join_error"
              [] outcome = SpawnError.status -> "command_error"
              [] OTHER -> "completed"]

TrackerOutcomes == {"elapsed", "join_error", "spawn_error", "exit_zero", "exit_nonzero"}

\* run_responder_agent up to the await: spawn_blocking of the command
LaunchResponder(c) ==
    /\ calls[c].pc = "tracker_spawned"
    /\ calls' = [calls EXCEPT
          ![c].pc = "awaiting",
          ![c].launched = Append(@, "responder"),
          ![c].responder = ResponderCommand(calls[c].lang_dir, calls[c].message)]

\* the blocking task of the responder ends
ResponderExit(c, output) ==
    /\ calls[c].pc = "awaiting"
    /\ calls' = [calls EXCEPT ![c].pc = "responder_done", ![c].output = output]

\* run_responder_agent after the await
ResponderResult(output) ==
    CASE output.status = "join_error" -> Err("Task join error: {}", <<>>)
      [] output.status = "spawn_error" -> Err("Failed to run claude: {}", <<>>)
      [] output.status = "exit_zero" -> Ok("{}", <<Trim(output.stdout)>>)
      [] OTHER -> Err("Claude error: {}", <<Trim(output.stderr)>>)

\* send_message returns what run_responder_agent returned
SendReturnJoinsTracker(c) ==
    /\ calls[c].pc = "responder_done"
    /\ trackers[c].state \in TrackerTerminal
    /\ calls' = [calls EXCEPT
          ![c].pc = "returned",
          ![c].result = IF trackers[c].state = "completed"
                        THEN ResponderResult(calls[c].output)
                        ELSE Err("Tracker failed: {}", <<>>)]

SendReturnAfterTracker(c) ==
    /\ calls[c].pc = "responder_done"
    /\ trackers[c].state \in TrackerTerminal
    /\ calls' = [calls EXCEPT ![c].pc = "returned",
                              ![c].result = ResponderResult(calls[c].output)]

SendReturnOnTrackerTimeout(c) ==
    \/ /\ calls[c].pc = "responder_done"
       /\ calls' = [calls EXCEPT ![c].pc = "returned",
                                 ![c].result = ResponderResult(calls[c].output)]
    \/ /\ calls[c].pc = "awaiting"
       /\ trackers[c].state = "timed_out"
       /\ calls' = [calls EXCEPT ![c].pc = "returned",
                                 ![c].result = Err("Timed out after {}s", <<>>)]

SendReturn(c) ==
    /\ calls[c].pc = "responder_done"
    /\ calls' = [calls EXCEPT ![c].pc = "returned",
                              ![c].result = ResponderResult(calls[c].output)]

(***************************************************************************)
(* Session orchestrator                                                    *)
(***************************************************************************)
\* a call past the guard takes the first free slot
FreeCall(c) ==
    /\ calls[c].pc = "idle"
    /\ \A b \in Calls : b < c => calls[b].pc # "idle"

StartCallResponderFirst(c, message, language, lang_dir) ==
    /\ FreeCall(c)
    /\ trackers' = trackers
    /\ calls' = [calls EXCEPT ![c] =
          [IdleCall EXCEPT !.pc = "awaiting", !.language = language,
                           !.lang_dir = lang_dir, !.message = message,
                           !.launched = <<"responder">>,
                           !.responder = ResponderCommand(lang_dir, message)]]
    /\ ret' = ret

StartCall(c, message, language, lang_dir) ==
    /\ FreeCall(c)
    /\ spawn_tracker_agent(c, lang_dir, message)
    /\ calls' = [calls EXCEPT ![c] =
          [IdleCall EXCEPT !.pc = "tracker_spawned", !.language = language,
                           !.lang_dir = lang_dir, !.message = message,
                           !.launched = <<"tracker">>]]
    /\ ret' = ret

SendMessageNoGuard(message, language) ==
    LET r == get_language_dir(language)
    IN  IF ~r.ok
        THEN /\ ret' = Returned("send_message", language, r)
             /\ UNCHANGED <<calls, trackers>>
        ELSE \E c \in Calls : StartCall(c, message, language, r.val)

\* send_message up to and including spawn_tracker_agent
send_message(message, language) ==
    LET r == get_language_dir(language)
    IN  IF ~r.ok
        THEN /\ ret' = Returned("send_message", language, r)
             /\ UNCHANGED <<calls, trackers>>
        ELSE IF ~exists(r.val)
        THEN /\ ret' = Returned("send_message", language,
                         Err("Language '{}' not set up. Please bootstrap it first.",
                             <<language>>))
             /\ UNCHANGED <<calls, trackers>>
        ELSE \E c \in Calls : StartCall(c, message, language, r.val)

(***************************************************************************)
(* Transcript reader                                                       *)
(***************************************************************************)
UserTextLine == JsonLine(JObject(
    [type |-> JString("user"),
     message |-> JObject([role |-> JString("user"), content |-> JString("hola")])]))

AssistantTextLine == JsonLine(JObject(
    [type |-> JString("assistant"),
     message |-> JObject([role |-> JString("assistant"),
         content |-> JArray(<<JObject([type |-> JString("text"),
                                        text |-> JString("buenos dias")])>>)])]))

ToolResultLine == JsonLine(JObject(
    [type |-> JString("user"),
     message |-> JObject([role |-> JString("user"),
         content |-> JArray(<<JObject([type |-> JString("tool_result")])>>)])]))

\* the log the external tool has written when a project directory holds one
SampleTranscript == <<UserTextLine, AssistantTextLine, ToolResultLine, BadLine>>

\* the external tool's project-log directory for a workspace, as
\* get_chat_history finds it: its path cannot be derived (the workspace path
\* does not canonicalize, or there is no home directory), it is missing, it
\* holds no .jsonl file or cannot be listed, it holds a log, or it holds a
\* log that cannot be opened
ProjectStates == {"no_canonical", "no_home", "absent", "no_jsonl", "jsonl", "unreadable"}

GetChatHistoryMissingIsError(language, projects) ==
    LET r == get_language_dir(language)
    IN  IF ~r.ok THEN ret' = Returned("get_chat_history", language, r)
        ELSE IF ~exists(r.val)
        THEN ret' = Returned("get_chat_history", language,
                             Err("Language '{}' not set up", <<language>>))
        ELSE \E found \in projects :
                ret' = Returned("get_chat_history", language,
                    CASE found = "no_canonical" -> Err("Failed to canonicalize path: {}", <<>>)
                      [] found = "no_home" -> Err("Failed to get home directory", <<>>)
                      [] found = "absent" -> Err("Failed to read project directory: {}", <<>>)
                      [] found = "no_jsonl" -> OkVal(<<>>)
                      [] found = "unreadable" -> Err("Failed to open JSONL: {}", <<>>)
                      [] OTHER -> OkVal(parse_chat_messages_from_jsonl(SampleTranscript)))

\* projects: the states the project directory may be found in
get_chat_history(language, projects) ==
    LET r == get_language_dir(language)
    IN  IF ~r.ok THEN ret' = Returned("get_chat_history", language, r)
        ELSE IF ~exists(r.val)
        THEN ret' = Returned("get_chat_history", language,
                             Err("Language '{}' not set up", <<language>>))
        ELSE \E found \in projects :
                ret' = Returned("get_chat_history", language,
                    CASE found = "no_canonical" -> Err("Failed to canonicalize path: {}", <<>>)
                      [] found = "no_home" -> Err("Failed to get home directory", <<>>)
                      [] found = "absent" -> OkVal(<<>>)
                      [] found = "no_jsonl" -> OkVal(<<>>)
                      [] found = "unreadable" -> Err("Failed to open JSONL: {}", <<>>)
                      [] OTHER -> OkVal(parse_chat_messages_from_jsonl(SampleTranscript)))

(***************************************************************************)
(* The application: commands arrive in any order, tasks run in between.    *)
(* Each action takes the sets its inputs and the environment's answers are *)
(* drawn from.                                                             *)
(***************************************************************************)
Unresolved == [given |-> Pending, lowered |-> Pending]

IdleResolver == identifier = <<>> /\ resolution = Unresolved
IdleReader == log = <<>> /\ lineNo = 0 /\ messages = <<>>
\* the words a learner message may hold
Words == {"uno", "dos", "tres"}

\* vocabulary.json as bootstrap leaves it: no entry
EmptyVocabulary == vocabulary = <<>> /\ updates = [w \in Words |-> 0]

IdlePolicy ==
    /\ item = [repetitions |-> 0, interval |-> 0, ease |-> 0] /\ uses = 0
    /\ EmptyVocabulary

\* the application after start: an empty data directory, no call in flight
IdleSystem ==
    /\ dirs = <<>>
    /\ clock = 0
    /\ ret = [op |-> "none", language |-> <<>>, result |-> Pending]
    /\ calls = [c \in Calls |-> IdleCall]
    /\ trackers = [c \in Calls |-> IdleTracker]
    /\ project = "absent"

Init == IdleSystem /\ IdleResolver /\ IdleReader /\ IdlePolicy

systemVars == <<dirs, clock, ret, calls, trackers, project>>

otherVars == <<resolveVars, parseVars, sm2Vars>>

Bootstrap(args, mkdirs, writes) ==
    \E language \in args :
        /\ bootstrap_language(language, mkdirs, writes)
        /\ UNCHANGED <<calls, trackers, project, otherVars>>

Delete(args, removals) ==
    \E language \in args :
        /\ delete_language(language, removals)
        /\ UNCHANGED <<clock, calls, trackers, project, otherVars>>

GetVocabulary(args) ==
    \E language \in args :
        /\ get_vocabulary(language)
        /\ UNCHANGED <<dirs, clock, calls, trackers, project, otherVars>>

GetGrammar(args) ==
    \E language \in args :
        /\ get_grammar(language)
        /\ UNCHANGED <<dirs, clock, calls, trackers, project, otherVars>>

GetChatHistory(args, projects) ==
    \E language \in args :
        /\ get_chat_history(language, projects)
        /\ UNCHANGED <<dirs, clock, calls, trackers, project, otherVars>>

\* slots: the calls that may be in flight
SendMessage(args, slots) ==
    \E message \in Messages, language \in args :
        /\ send_message(message, language)
        /\ \A c \in Calls \ slots : calls'[c] = calls[c]
        /\ UNCHANGED <<dirs, clock, project, otherVars>>

RunResponder ==
    \E c \in Calls :
        /\ LaunchResponder(c)
        /\ UNCHANGED <<dirs, clock, ret, trackers, project, otherVars>>

ResponderEnds(outcomes) ==
    \E c \in Calls, output \in outcomes :
        /\ ResponderExit(c, output)
        /\ UNCHANGED <<dirs, clock, ret, trackers, project, otherVars>>

SendReturns ==
    \E c \in Calls :
        /\ SendReturn(c)
        /\ UNCHANGED <<dirs, clock, ret, trackers, project, otherVars>>

TrackerStarts ==
    \E c \in Calls :
        /\ TrackerStart(c)
        /\ UNCHANGED <<clock, ret, calls, project, otherVars>>

TrackerEnds(outcomes) ==
    \E c \in Calls, outcome \in outcomes :
        /\ TrackerEnd(c, outcome)
        /\ UNCHANGED <<dirs, clock, ret, calls, project, otherVars>>

(***************************************************************************)
(* Spec: the session orchestrator.  One language, bootstrapped without a    *)
(* file-system failure and never deleted, MaxCalls send_message calls,     *)
(* every outcome of the responder and of the tracker.                      *)
(***************************************************************************)
SessionArgs == {<<"k">>}

Next ==
    \/ Bootstrap(SessionArgs, {TRUE}, {5})
    \/ SendMessage(SessionArgs, Calls)
    \/ RunResponder
    \/ ResponderEnds(ProcessOutcomes)
    \/ SendReturns
    \/ TrackerStarts
    \/ TrackerEnds(TrackerOutcomes)

Spec == Init /\ [][Next]_vars

(***************************************************************************)
(* SpecWorkspace: the workspace commands.  Every identifier of             *)
(* LanguageArgs, a file system that may fail in bootstrap and delete, one  *)
(* send_message call in flight with one outcome of each process.           *)
(***************************************************************************)
NextWorkspace ==
    \/ Bootstrap(LanguageArgs, BOOLEAN, 0..5)
    \/ Delete(LanguageArgs, BOOLEAN)
    \/ GetVocabulary(LanguageArgs)
    \/ GetGrammar(LanguageArgs)
    \/ GetChatHistory(LanguageArgs, ProjectStates)
    \/ SendMessage(LanguageArgs, {1})
    \/ RunResponder
    \/ ResponderEnds({Exited(0, ProcessStdout, <<>>)})
    \/ SendReturns
    \/ TrackerStarts
    \/ TrackerEnds({"exit_zero"})

SpecWorkspace == Init /\ [][NextWorkspace]_vars

(***************************************************************************)
(* SpecTracker: one send_message call and its tracker task.  The timer of  *)
(* tokio::time::timeout fires once TRACKER_TIMEOUT_SECS have passed, so    *)
(* the timeout arm is taken unless another arm was taken first; nothing    *)
(* makes the external processes exit.                                      *)
(***************************************************************************)
NextTracker ==
    \/ Bootstrap(SessionArgs, {TRUE}, {5})
    \/ SendMessage(SessionArgs, {1})
    \/ RunResponder
    \/ ResponderEnds(ProcessOutcomes)
    \/ SendReturns
    \/ TrackerStarts
    \/ TrackerEnds(TrackerOutcomes)

SpecTracker ==
    Init /\ [][NextTracker]_vars /\ WF_vars(TrackerEnds({"elapsed"}))

(***************************************************************************)
(* SpecHistory: get_chat_history on every identifier of LanguageArgs while *)
(* the external tool creates, fills and loses the project-log directory.   *)
(***************************************************************************)
\* the external tool, or anything else outside the program, changes what
\* get_chat_history will find
ProjectChanges(states) ==
    /\ project' \in states \ {project}
    /\ UNCHANGED <<dirs, clock, ret, calls, trackers, otherVars>>

NextHistory ==
    \/ Bootstrap(ValidArgs, {TRUE}, {5})
    \/ Delete(ValidArgs, {TRUE})
    \/ GetChatHistory(LanguageArgs, {project})
    \/ ProjectChanges(ProjectStates)

SpecHistory == Init /\ [][NextHistory]_vars

(***************************************************************************)
(* SpecResolve: the workspace resolver run on every identifier up to       *)
(* MaxIdLen over ResolverChars, and on its lowercase form.                 *)
(***************************************************************************)
ResolverChars == {"k", "K", "I_DOT", "COMB_DOT", "7", " ", "-", ".", "/", "\\", "_"}

Identifiers == SeqsUpTo(ResolverChars, MaxIdLen)

InitResolve ==
    /\ IdleSystem /\ IdleReader /\ IdlePolicy
    /\ identifier \in Identifiers
    /\ resolution = Unresolved

Resolve ==
    /\ resolution.given = Pending
    /\ resolution' = [resolution EXCEPT !.given = get_language_dir(identifier)]
    /\ UNCHANGED <<identifier, systemVars, parseVars, sm2Vars>>

ResolveLowercase ==
    /\ resolution.lowered = Pending
    /\ resolution' = [resolution EXCEPT !.lowered = get_language_dir(ToLowercase(identifier))]
    /\ UNCHANGED <<identifier, systemVars, parseVars, sm2Vars>>

NextResolve ==
    \/ Resolve
    \/ ResolveLowercase

SpecResolve == InitResolve /\ [][NextResolve]_vars

(***************************************************************************)
(* SpecParse: parse_chat_messages_from_jsonl read line by line, on every   *)
(* one-line log over LineSamples and every log up to MaxLines over the     *)
(* basic kinds of line.                                                    *)
(***************************************************************************)
ItemSamples ==
    { JObject([type |-> JString("text"), text |-> JString("uno")]),
      JObject([type |-> JString("text"), text |-> JString("dos")]),
      JObject([type |-> JString("text"), text |-> JNumber]),
      JObject([type |-> JString("text"), other |-> JNull]),
      JObject([text |-> JString("uno"), other |-> JNull]),
      JObject([type |-> JString("tool_result"), other |-> JNull]),
      JObject([type |-> JString("tool_use"), other |-> JNull]),
      JObject([type |-> JNumber, text |-> JString("uno")]) }

ContentSamples ==
    {JString("hola"), JNumber} \cup {JArray(items) : items \in SeqsUpTo(ItemSamples, MaxItems)}

TagSamples == {JString("user"), JString("assistant"), JNumber}

MessageSamples ==
    {JString("hola")}
        \cup {JObject([role |-> r, content |-> c]) : r \in TagSamples, c \in ContentSamples}
        \cup {JObject([role |-> r, other |-> JNull]) : r \in TagSamples}
        \cup {JObject([content |-> c, other |-> JNull]) : c \in ContentSamples}

RecordSamples ==
    {JNull, JArray(<<>>)}
        \cup {JObject([type |-> t, message |-> m]) : t \in TagSamples, m \in MessageSamples}
        \cup {JObject([type |-> t, other |-> JNull]) : t \in TagSamples}
        \cup {JObject([message |-> m, other |-> JNull]) : m \in MessageSamples}

LineSamples == {BadLine} \cup {JsonLine(json) : json \in RecordSamples}

\* a record whose kind tag and role tag disagree
MismatchLine == JsonLine(JObject(
    [type |-> JString("user"),
     message |-> JObject([role |-> JString("assistant"), content |-> JString("hola")])]))

BasicLines == {UserTextLine, AssistantTextLine, ToolResultLine, BadLine, MismatchLine}

Logs == {<<line>> : line \in LineSamples} \cup SeqsUpTo(BasicLines, MaxLines)

InitParse ==
    /\ IdleSystem /\ IdleResolver /\ IdlePolicy
    /\ log \in Logs
    /\ lineNo = 0
    /\ messages = <<>>

\* one turn of the for loop over reader.lines()
ReadLine ==
    /\ lineNo < Len(log)
    /\ lineNo' = lineNo + 1
    /\ messages' = ParseLine(messages, log[lineNo + 1])
    /\ UNCHANGED <<log, systemVars, resolveVars, sm2Vars>>

NextParse == ReadLine

SpecParse == InitParse /\ [][NextParse]_vars

(***************************************************************************)
(* SpecSM2: the SM-2 rule applied up to MaxUses times to every item with   *)
(* repetitions up to MaxRepetitions and interval up to MaxInterval.        *)
(***************************************************************************)
EaseSamples == {13, 25}

InitSM2 ==
    /\ IdleSystem /\ IdleResolver /\ IdleReader
    /\ item \in [repetitions : 0..MaxRepetitions, interval : 0..MaxInterval,
                 ease : EaseSamples]
    /\ uses = 0
    /\ EmptyVocabulary

CorrectUse ==
    /\ uses < MaxUses
    /\ uses' = uses + 1
    /\ item' = SM2CorrectUse(item)
    /\ UNCHANGED <<vocabulary, updates, systemVars, resolveVars, parseVars>>

NextSM2 == CorrectUse

SpecSM2 == InitSM2 /\ [][NextSM2]_vars

(***************************************************************************)
(* SpecVocabulary: step 2 of TRACKER_PROMPT on the words of the learner's  *)
(* messages: a word that is new gets an entry with the defaults, a word    *)
(* that has an entry gets the SM-2 update, up to MaxUses updates a word.   *)
(***************************************************************************)
\* "If NEW: add entry with ease=2.5, interval=1, repetitions=1"
AddWord ==
    \E w \in Words \ DOMAIN vocabulary :
        /\ vocabulary' = [v \in (DOMAIN vocabulary) \cup {w} |->
                             IF v = w THEN NewVocabularyItem ELSE vocabulary[v]]
        /\ UNCHANGED <<updates, item, uses, systemVars, resolveVars, parseVars>>

\* "If EXISTS: update SM-2 data"
UseWord ==
    \E w \in DOMAIN vocabulary :
        /\ updates[w] < MaxUses
        /\ vocabulary' = [vocabulary EXCEPT ![w] = SM2CorrectUse(@)]
        /\ updates' = [updates EXCEPT ![w] = @ + 1]
        /\ UNCHANGED <<item, uses, systemVars, resolveVars, parseVars>>

NextVocabulary ==
    \/ AddWord
    \/ UseWord

SpecVocabulary == Init /\ [][NextVocabulary]_vars

(***************************************************************************)
(* Properties                                                              *)
(***************************************************************************)
\* t is s without its leading and trailing whitespace
IsTrimOf(t, s) ==
    \E i \in 1..(Len(s) + 1), j \in 0..Len(s) :
        /\ t = SubSeq(s, i, j)
        /\ \A n \in 1..(i - 1) : s[n] \in Whitespace
        /\ \A n \in (j + 1)..Len(s) : s[n] \in Whitespace
        /\ t # <<>> => (t[1] \notin Whitespace /\ t[Len(t)] \notin Whitespace)

\* the last step was a command returning at once
CommandReturned ==
    \/ ret'.op # ret.op
    \/ ret'.language # ret.language
    \/ ret'.result.ok # ret.result.ok
    \/ ret'.result.fmt # ret.result.fmt

\* the identifiers the workspace resolver has to reject
BadIdentifier(l) ==
    \/ l = <<>>
    \/ \E i \in 1..(Len(l) - 1) : l[i] = "." /\ l[i + 1] = "."
    \/ \E i \in 1..Len(l) : l[i] \in {"/", "\\"}
    \/ \E i \in 1..Len(l) : ~(l[i] \in Letters \cup Digits \cup {" ", "-"})

ValidationErrors ==
    { "Language name cannot be empty",
      "Language name contains invalid characters",
      "Language name can only contain letters, numbers, spaces, and hyphens" }

\* C1: whenever send_message has returned and its responder process exited
\* with status 0, the value returned is Ok of the responder's standard
\* output without its leading and trailing whitespace, in every state of the
\* tracker of that call (not started, failed to create .tracker, running,
\* timed out, join error, spawn error, exited).
C1_ResponderResultIgnoresTracker ==
    \A c \in Calls :
        (calls[c].pc = "returned" /\ calls[c].output.status = "exit_zero")
            => /\ calls[c].result.ok
               /\ Len(calls[c].result.args) = 1
               /\ IsTrimOf(calls[c].result.args[1], calls[c].output.stdout)

\* C1 witness: two calls returned the trimmed output of a responder that
\* exited 0, one whose tracker timed out and one whose tracker could not
\* create its directory.
C1_Witness ==
    \E c, d \in Calls :
        /\ calls[c].pc = "returned" /\ calls[c].output.status = "exit_zero"
        /\ calls[d].pc = "returned" /\ calls[d].output.status = "exit_zero"
        /\ calls[c].result = Ok("{}", <<<<"o", " ", "k">>>>)
        /\ trackers[c].state = "timed_out"
        /\ trackers[d].state = "mkdir_failed"

\* C2: once the responder of a call has finished, the return of
\* send_message is enabled, whatever the state of the call's tracker.
C2_ReturnNeverWaitsForTracker ==
    \A c \in Calls : calls[c].pc = "responder_done" => ENABLED SendReturn(c)

\* C2 witness: send_message has returned while the tracker task it spawned
\* has not started yet.
C2_Witness ==
    \E c \in Calls : calls[c].pc = "returned" /\ trackers[c].state = "spawned"

\* C3: a call past the guard has launched exactly one tracker and then at
\* most one responder: the tracker alone before run_responder_agent, the
\* tracker followed by the responder from then on; a slot no call has taken
\* has launched nothing.
C3_OneTrackerThenOneResponder ==
    \A c \in Calls :
        /\ calls[c].pc = "idle"
              => (calls[c].launched = <<>> /\ trackers[c].state = "none"
                  /\ calls[c].responder = NoRequest)
        /\ calls[c].pc = "tracker_spawned"
              => (calls[c].launched = <<"tracker">> /\ trackers[c].state # "none"
                  /\ calls[c].responder = NoRequest)
        /\ calls[c].pc \in {"awaiting", "responder_done", "returned"}
              => (calls[c].launched = <<"tracker", "responder">>
                  /\ trackers[c].state # "none"
                  /\ calls[c].responder.program = "claude")

\* C3 witness: both completion orders in one state: the tracker of one call
\* has ended while its responder is still awaited, and the responder of
\* another call has ended while its tracker is still running.
C3_Witness ==
    \E c, d \in Calls :
        /\ calls[c].pc = "awaiting" /\ trackers[c].state \in TrackerTerminal
        /\ calls[d].pc \in {"responder_done", "returned"} /\ trackers[d].state = "running"

NotBootstrapped(language) ==
    Err("Language '{}' not set up. Please bootstrap it first.", <<language>>)

\* C4: a send_message that finds no workspace directory returns at once the
\* error that names the language and asks for a bootstrap, and that step
\* changes no directory, call or tracker; and no call gets past the guard
\* (spawning a tracker, later a responder) on a directory that does not exist.
C4_NotBootstrappedLaunchesNothing ==
    [][ /\ (CommandReturned /\ ret'.op = "send_message" /\ ~BadIdentifier(ret'.language))
            => /\ ret'.result = NotBootstrapped(ret'.language)
               /\ ToLowercase(ret'.language) \notin DOMAIN dirs
               /\ UNCHANGED <<dirs, calls, trackers>>
        /\ \A c \in Calls :
             (calls[c].pc = "idle" /\ calls'[c].pc # "idle")
                => calls'[c].lang_dir \in DOMAIN dirs ]_vars

\* C4 witness: send_message("K") was refused with NotBootstrapped after the
\* workspace was deleted, while an earlier call on it is still in flight;
\* the directory is still absent.
C4_Witness ==
    /\ ret.op = "send_message"
    /\ ret.language = <<"K">>
    /\ ret.result = NotBootstrapped(<<"K">>)
    /\ calls[1].pc = "awaiting"
    /\ dirs = <<>>

\* C5: a command given an identifier that is empty, contains "..", "/" or
\* "\", or a character that is not alphanumeric, space or hyphen, returns
\* one of the validation errors, and that step changes no directory, no file
\* date, no call and no tracker; no call in flight carries such an identifier.
C5_InvalidIdentifierRejected ==
    [][ /\ (CommandReturned /\ BadIdentifier(ret'.language))
            => /\ ~ret'.result.ok
               /\ ret'.result.fmt \in ValidationErrors
               /\ UNCHANGED <<dirs, clock, calls, trackers>>
        /\ \A c \in Calls : calls'[c].pc # "idle" => ~BadIdentifier(calls'[c].language) ]_vars

\* C5 witness: get_chat_history on an identifier with a path separator was
\* refused while a workspace exists and a call is in flight.
C5_Witness ==
    /\ ret.op = "get_chat_history"
    /\ ret.language = <<"k", "/">>
    /\ ret.result.fmt \in ValidationErrors
    /\ <<"k">> \in DOMAIN dirs
    /\ calls[1].pc = "awaiting"

\* C6: a bootstrap of a valid identifier whose directory exists returns
\* AlreadyExists naming the identifier and leaves the data directory as it
\* was: every file keeps its content and its date.
C6_SecondBootstrapChangesNothing ==
    [][ (/\ CommandReturned
         /\ ret'.op = "bootstrap_language"
         /\ ~BadIdentifier(ret'.language)
         /\ ToLowercase(ret'.language) \in DOMAIN dirs)
            => /\ ret'.result = Err("Language '{}' already exists", <<ret'.language>>)
               /\ dirs' = dirs
               /\ clock' = clock ]_vars

\* C6 witness: bootstrap("K") returned AlreadyExists on the workspace that
\* bootstrap("k") populated; its five files still carry "k" and the first date.
C6_Witness ==
    /\ ret.op = "bootstrap_language"
    /\ ret.language = <<"K">>
    /\ ret.result = Err("Language '{}' already exists", <<<<"K">>>>)
    /\ <<"k">> \in DOMAIN dirs
    /\ DOMAIN dirs[<<"k">>].files = Artifacts
    /\ \A f \in Artifacts :
          /\ dirs[<<"k">>].files[f].content.language = <<"k">>
          /\ dirs[<<"k">>].files[f].mtime = 0

\* C7: delete of a valid identifier without a workspace returns NotFound and
\* changes nothing; and once delete has returned Ok, the workspace directory
\* does not exist for as long as that delete is the last command to have
\* returned, whatever the tasks of earlier calls do.
C7_DeleteRemovesWorkspace ==
    [][ /\ (/\ CommandReturned
            /\ ret'.op = "delete_language"
            /\ ~BadIdentifier(ret'.language)
            /\ ToLowercase(ret'.language) \notin DOMAIN dirs)
               => /\ ret'.result = Err("Language '{}' does not exist", <<ret'.language>>)
                  /\ dirs' = dirs
        /\ (ret'.op = "delete_language" /\ ret'.result.ok)
               => ToLowercase(ret'.language) \notin DOMAIN dirs' ]_vars

\* C8: for every identifier that passes validation, resolving the identifier
\* and resolving its lowercase form both succeed and give the same directory.
C8_CaseInsensitiveMapping ==
    (/\ resolution.given.fmt # "pending"
     /\ resolution.lowered.fmt # "pending"
     /\ resolution.given.ok)
        => /\ resolution.lowered.ok
           /\ resolution.lowered.val = resolution.given.val

\* a line that yields a turn, and the turn it yields
Classifies(line) ==
    /\ line.parses
    /\ \/ extract_user_message(line.json).some
       \/ extract_assistant_message(line.json).some

TurnOf(line) ==
    IF extract_user_message(line.json).some
    THEN [role |-> "user", content |-> extract_user_message(line.json).v]
    ELSE [role |-> "assistant", content |-> extract_assistant_message(line.json).v]

\* C9: after any number of lines read, the turns collected are the turns of
\* the lines read so far that classify as user text or assistant text, in
\* line order; a line that is not JSON and a tool-result record are not
\* among them and do not end the read; the log user text, assistant text,
\* tool result, invalid line gives exactly the user turn then the assistant
\* turn.
C9_TranscriptKeepsOrderSkipsBad ==
    LET read == SubSeq(log, 1, lineNo)
        kept == SelectSeq(read, Classifies)
    IN  /\ messages = [i \in 1..Len(kept) |-> TurnOf(kept[i])]
        /\ \A i \in 1..lineNo :
              (~log[i].parses \/ log[i] = ToolResultLine) => ~Classifies(log[i])
        /\ (log = SampleTranscript /\ lineNo = Len(log))
              => messages = << [role |-> "user", content |-> "hola"],
                               [role |-> "assistant", content |-> "buenos dias"] >>

\* C9 witness: a four-line log read to its end in which an invalid line and a
\* tool-result record come before the two turns that were collected.
C9_Witness ==
    /\ log = <<BadLine, ToolResultLine, AssistantTextLine, UserTextLine>>
    /\ lineNo = 4
    /\ messages = << [role |-> "assistant", content |-> "buenos dias"],
                     [role |-> "user", content |-> "hola"] >>

\* C10: a correct use adds 1 to repetitions and leaves ease as it was; the
\* interval becomes 1 when the new repetitions is 1, 6 when it is 2, and the
\* integer nearest to previous interval x ease when it is 3 or more; so
\* repetitions 0 gives (1, 1), (1, 1) gives (2, 6) and (2, 6) at ease 2.5
\* gives (3, 15).
C10_SM2CorrectUse ==
    [][ uses' = uses + 1 =>
          /\ item'.repetitions = item.repetitions + 1
          /\ item'.ease = item.ease
          /\ item'.repetitions = 1 => item'.interval = 1
          /\ item'.repetitions = 2 => item'.interval = 6
          /\ item'.repetitions >= 3 =>
                /\ 10 * item'.interval - item.interval * item.ease <= 5
                /\ item.interval * item.ease - 10 * item'.interval <= 5
          /\ item.repetitions = 0 => (item'.repetitions = 1 /\ item'.interval = 1)
          /\ (item.repetitions = 1 /\ item.interval = 1)
                => (item'.repetitions = 2 /\ item'.interval = 6)
          /\ (item.repetitions = 2 /\ item.interval = 6 /\ item.ease = 25)
                => (item'.repetitions = 3 /\ item'.interval = 15) ]_vars

\* C10 witness: an item that started at repetitions 0 with ease 2.5 has been
\* used correctly three times and stands at repetitions 3, interval 15.
C10_Witness ==
    /\ uses = 3
    /\ item = [repetitions |-> 3, interval |-> 15, ease |-> 25]

\* C11: a send_message whose responder exited non-zero returns a failure
\* that carries the captured standard-error text and names the language of
\* the call; one whose responder could not be spawned or joined returns a
\* failure of another kind; neither returns a success.
C11_ResponderFailureKinds ==
    \A c \in Calls :
        calls[c].pc = "returned" =>
            /\ calls[c].output.status = "exit_nonzero" =>
                  /\ ~calls[c].result.ok
                  /\ \E i \in 1..Len(calls[c].result.args) :
                        IsTrimOf(calls[c].result.args[i], calls[c].output.stderr)
                  /\ \E i \in 1..Len(calls[c].result.args) :
                        calls[c].result.args[i] = calls[c].language
            /\ calls[c].output.status \in {"spawn_error", "join_error"} =>
                  /\ ~calls[c].result.ok
                  /\ calls[c].result.fmt # "Claude error: {}"

\* C12: when the last command to have returned is a successful bootstrap of
\* L and the next is get_vocabulary on an identifier of the same workspace,
\* get_vocabulary returns the vocabulary skeleton: the language field is L
\* as it was passed to bootstrap, and words is the empty list.
C12_VocabularyAfterBootstrap ==
    [][ (/\ ret.op = "bootstrap_language"
         /\ ret.result.ok
         /\ ret'.op = "get_vocabulary"
         /\ ToLowercase(ret'.language) = ToLowercase(ret.language))
            => /\ ret'.result.ok
               /\ ret'.result.val = [language |-> ret.language, words |-> <<>>] ]_vars

\* C12 witness: get_vocabulary("k") has returned the skeleton that
\* bootstrap("K") wrote, with the language field "K".
C12_Witness ==
    /\ ret.op = "get_vocabulary"
    /\ ret.language = <<"k">>
    /\ ret.result.ok
    /\ ret.result.val = [language |-> <<"K">>, words |-> <<>>]
    /\ dirs[<<"k">>].files["vocabulary.json"].mtime = clock - 1

\* C13: a get_chat_history on a valid identifier whose workspace exists, made
\* while the derived project-log directory is missing or holds no .jsonl
\* file, returns Ok of the empty sequence.
C13_MissingHistoryIsEmpty ==
    [][ (/\ ret'.op = "get_chat_history"
         /\ (CommandReturned \/ ret'.result.val # ret.result.val)
         /\ ~BadIdentifier(ret'.language)
         /\ ToLowercase(ret'.language) \in DOMAIN dirs
         /\ project \in {"absent", "no_jsonl"})
            => /\ ret'.result.ok
               /\ ret'.result.val = <<>> ]_vars

\* C13 witness: get_chat_history("K") returned the empty sequence on the
\* bootstrapped workspace whose project-log directory exists without a log,
\* after an earlier state in which it held one.
C13_Witness ==
    /\ ret.op = "get_chat_history"
    /\ ret.language = <<"K">>
    /\ ret.result.ok
    /\ ret.result.val = <<>>
    /\ project = "no_jsonl"
    /\ <<"k">> \in DOMAIN dirs
    /\ clock = 2

\* C14: in every state, each workspace directory that exists holds all five
\* bootstrap artifacts: CLAUDE.md, vocabulary.json, grammar.json,
\* user-overrides.json and config.json.
C14_WorkspaceNeverPartial ==
    \A d \in DOMAIN dirs : Artifacts \subseteq DOMAIN dirs[d].files

\* C15: a tracker whose process was launched reaches a terminal state, and
\* the timeout arm is open to it for as long as it runs, whether or not the
\* process exits; the step that takes the timeout arm changes no directory,
\* file or call; a tracker that was launched is never set back to be started
\* again, its command is never replaced, and a terminal tracker never
\* changes again, whatever its outcome was.
C15_TrackerBoundedNoRetry ==
    /\ [][ \A c \in Calls :
              /\ trackers[c].state \in TrackerTerminal => trackers'[c] = trackers[c]
              /\ trackers[c].state = "running"
                    => /\ trackers'[c].state \in {"running"} \cup TrackerTerminal
                       /\ trackers'[c].command = trackers[c].command
              /\ (trackers[c].state = "running" /\ trackers'[c].state = "timed_out")
                    => UNCHANGED <<dirs, calls, ret>> ]_vars
    /\ [](\A c \in Calls : trackers[c].state = "running" => ENABLED TrackerEnd(c, "elapsed"))
    /\ \A c \in Calls :
          (trackers[c].state = "running") ~> (trackers[c].state \in TrackerTerminal)

\* C15 witness: the tracker of a call timed out while the call still waits
\* for its responder; the .tracker directory it made is still there.
C15_Witness ==
    /\ trackers[1].state = "timed_out"
    /\ trackers[1].command.program = "claude"
    /\ calls[1].pc = "awaiting"
    /\ TrackerDirName \in dirs[<<"k">>].subdirs

\* C16: a send_message call returns only from the point where its responder
\* has ended, with the outcome of the responder process (exited, not
\* spawned, not joined) in hand; a call waiting for its responder leaves
\* that wait only by the responder ending, and no step of its tracker, the
\* timeout included, moves it.
C16_ReturnOnlyAfterResponder ==
    [][ \A c \in Calls :
          /\ (calls'[c].pc = "returned" /\ calls[c].pc # "returned")
                => /\ calls[c].pc = "responder_done"
                   /\ calls[c].output \in ProcessOutcomes
          /\ (calls[c].pc = "awaiting" /\ calls'[c].pc # "awaiting")
                => /\ calls'[c].pc = "responder_done"
                   /\ calls'[c].output \in ProcessOutcomes
          /\ (calls[c].pc = "awaiting" /\ trackers'[c] # trackers[c])
                => calls'[c] = calls[c] ]_vars

\* C16 witness: a call still waits for its responder after its tracker
\* timed out, while a later call has already returned.
C16_Witness ==
    \E c, d \in Calls :
        /\ c < d
        /\ calls[c].pc = "awaiting"
        /\ trackers[c].state = "timed_out"
        /\ calls[d].pc = "returned"

\* C17: for every line read that parses, extract_user_message and
\* extract_assistant_message do not both return a value; and after any
\* number of lines read, the turns collected are no more than the lines read.
C17_AtMostOneTurnPerLine ==
    /\ \A i \in 1..lineNo :
          log[i].parses =>
              ~(/\ extract_user_message(log[i].json).some
                /\ extract_assistant_message(log[i].json).some)
    /\ Len(messages) <= lineNo

\* C17 witness: four lines read, each of which gave its one turn.
C17_Witness ==
    /\ log = <<UserTextLine, AssistantTextLine, AssistantTextLine, UserTextLine>>
    /\ lineNo = 4
    /\ Len(messages) = 4

\* a JSON value is the string str
IsJString(x, str) == x.kind = "string" /\ x.s = str

HasKey(x, key) == x.kind = "object" /\ key \in DOMAIN x.fields

\* a record whose kind tag and message role are both role
TaggedRecord(line, role) ==
    /\ line.parses
    /\ HasKey(line.json, "type") /\ IsJString(line.json.fields.type, role)
    /\ HasKey(line.json, "message")
    /\ HasKey(line.json.fields.message, "role")
    /\ IsJString(line.json.fields.message.fields.role, role)
    /\ HasKey(line.json.fields.message, "content")

ContentOf(line) == line.json.fields.message.fields.content

\* a list item tagged "text" that has a text value
IsTextItem(x) ==
    /\ HasKey(x, "type") /\ IsJString(x.fields.type, "text")
    /\ HasKey(x, "text") /\ x.fields.text.kind = "string"

\* C18: every line read that is an assistant record (kind tag and role both
\* "assistant") with a list as content yields the turn whose content is the
\* text of the first item of the list that is tagged "text" and has a text
\* value, whatever the items before it are; it yields no turn when the list
\* has no such item.
C18_FirstTextItemSuppliesTurn ==
    \A i \in 1..lineNo :
        (TaggedRecord(log[i], "assistant") /\ ContentOf(log[i]).kind = "array") =>
            LET items == ContentOf(log[i]).items
                texts == {k \in 1..Len(items) : IsTextItem(items[k])}
            IN  ParseLine(<<>>, log[i]) =
                    IF texts = {} THEN <<>>
                    ELSE LET first == CHOOSE k \in texts : \A n \in texts : k <= n
                         IN  << [role |-> "assistant",
                                 content |-> items[first].fields.text.s] >>

\* the user turns a line contributes
UserTurns(line) == SelectSeq(ParseLine(<<>>, line), LAMBDA m : m.role = "user")

IsUserTextRecord(line) ==
    TaggedRecord(line, "user") /\ ContentOf(line).kind = "string"

\* C19: a line read yields a user turn only if its kind tag is "user", the
\* role of its message is "user" and its content is a string, and the turn
\* is that string; so a record with a list as content, with or without a
\* tool-result item, and a record whose kind tag and role differ yield no
\* user turn, and the user turns collected are no more than such lines.
C19_UserTurnOnlyFromUserText ==
    /\ \A i \in 1..lineNo :
          UserTurns(log[i]) # <<>> =>
              /\ IsUserTextRecord(log[i])
              /\ UserTurns(log[i]) = << [role |-> "user", content |-> ContentOf(log[i]).s] >>
    /\ Len(SelectSeq(messages, LAMBDA m : m.role = "user"))
          <= Cardinality({i \in 1..lineNo : IsUserTextRecord(log[i])})

\* C19 witness: a record whose tags disagree and a tool-result list were read
\* and gave nothing; the user text read after them gave the one turn.
C19_Witness ==
    /\ log = <<MismatchLine, ToolResultLine, UserTextLine>>
    /\ lineNo = 3
    /\ messages = << [role |-> "user", content |-> "hola"] >>

HasFlag(command, flag) == \E i \in 1..Len(command.flags) : command.flags[i] = flag

\* C20: every responder command runs in the workspace directory of its call
\* with --continue; every tracker command runs in the .tracker directory
\* below the workspace directory of its call, without --continue; and no
\* responder command of any call has the working directory of a tracker
\* command of any call.
C20_ConversationIsolation ==
    /\ \A c \in Calls :
          /\ calls[c].responder.program = "claude"
                => /\ calls[c].responder.cwd = <<calls[c].lang_dir>>
                   /\ HasFlag(calls[c].responder, "--continue")
          /\ trackers[c].command.program = "claude"
                => /\ trackers[c].command.cwd = <<calls[c].lang_dir, TrackerDirName>>
                   /\ ~HasFlag(trackers[c].command, "--continue")
    /\ \A c, d \in Calls :
          (calls[c].responder.program = "claude" /\ trackers[d].command.program = "claude")
              => calls[c].responder.cwd # trackers[d].command.cwd

\* C20 witness: the responder of one call and the tracker of another call on
\* the same workspace run at the same time.
C20_Witness ==
    \E c, d \in Calls :
        /\ c # d
        /\ calls[c].pc = "awaiting"
        /\ calls[c].responder.program = "claude"
        /\ trackers[d].state = "running"
        /\ trackers[d].command.program = "claude"
        /\ calls[c].lang_dir = trackers[d].lang_dir

\* C21: every entry that was added with the new-item defaults and updated
\* by correct uses has repetitions 1 plus the number of its updates, ease
\* 2.5 and an interval of at least 1, which is 1 before the first update and
\* 6 after it; no update lowers the interval of an entry, and no update
\* leaves repetitions at 1 (the branch for repetitions == 1 is not taken).
C21_NewItemUnderCorrectUses ==
    /\ [](\A w \in DOMAIN vocabulary :
             /\ vocabulary[w].repetitions = 1 + updates[w]
             /\ vocabulary[w].ease = 25
             /\ vocabulary[w].interval >= 1
             /\ updates[w] = 0 => vocabulary[w].interval = 1
             /\ updates[w] = 1 => vocabulary[w].interval = 6)
    /\ [][ \A w \in DOMAIN vocabulary :
              /\ w \in DOMAIN vocabulary'
              /\ vocabulary'[w].interval >= vocabulary[w].interval
              /\ updates'[w] # updates[w] =>
                    /\ updates'[w] = updates[w] + 1
                    /\ vocabulary'[w].repetitions = vocabulary[w].repetitions + 1
                    /\ vocabulary'[w].repetitions # 1 ]_vars

\* C21 witness: one entry has had three updates and stands at repetitions 4,
\* interval 38 (1, 6, 15, 38), another has just been added.
C21_Witness ==
    /\ DOMAIN vocabulary = {"uno", "dos"}
    /\ updates["uno"] = 3
    /\ vocabulary["uno"] = [repetitions |-> 4, interval |-> 38, ease |-> 25]
    /\ updates["dos"] = 0
    /\ vocabulary["dos"] = [repetitions |-> 1, interval |-> 1, ease |-> 25]

====
